---- MODULE Spec2Model ----
(***************************************************************************)
(* kubectl-kruise "rollout undo": UndoOptions.RunUndo of                   *)
(* pkg/cmd/rollout/rollout_undo.go.                                        *)
(*                                                                         *)
(* One behaviour is one invocation of RunUndo.  A step is the building of  *)
(* a resource.Builder result (r, r2), one call of a visitor callback on    *)
(* one item, or the final return.  The cluster, the printer, the dry-run   *)
(* verifier and the rollbackers are the environment: what they answer is   *)
(* chosen with \E in the step that calls them.                             *)
(***************************************************************************)
EXTENDS Integers, Sequences, FiniteSets, TLC

\* The most items (TYPE/NAME arguments plus objects in -f files) one
\* invocation names.
MaxItems == 2

(***************************************************************************)
(* Group/version/kinds, objects and the cluster the command runs against.  *)
(***************************************************************************)
DeploymentGVK == [Group |-> "apps", Version |-> "v1", Kind |-> "Deployment"]
CloneSetGVK == [Group |-> "apps.kruise.io", Version |-> "v1alpha1", Kind |-> "CloneSet"]
RolloutGVK == [Group |-> "rollouts.kruise.io", Version |-> "v1alpha1", Kind |-> "Rollout"]
KnownGVKs == {DeploymentGVK, CloneSetGVK, RolloutGVK}

\* schema.GroupVersionKind.String()
GVKString(gvk) == gvk.Group \o "/" \o gvk.Version \o ", Kind=" \o gvk.Kind

Namespaces == {"default", "other"}
Names == {"abc", "ra", "rb", "rnil", "rold", "rbad"}

\* info.Object: a typed workload, a v1alpha1 Rollout with its
\* Spec.ObjectRef.WorkloadRef, an object of another Rollout version (the
\* cast of line 256 fails), or nil.
NoRef == [APIVersion |-> "", Kind |-> "", Name |-> ""]
WorkloadObj == [shape |-> "workload", WorkloadRef |-> NoRef]
NilObj == [shape |-> "nil", WorkloadRef |-> NoRef]
OtherVersionObj == [shape |-> "v1beta1", WorkloadRef |-> NoRef]
RolloutObj(apiVersion, kind, name) ==
    [shape |-> "v1alpha1",
     WorkloadRef |-> [APIVersion |-> apiVersion, Kind |-> kind, Name |-> name]]
NotFound == [shape |-> "notfound", WorkloadRef |-> NoRef]

\* What the server holds (the same in every namespace): the workloads
\* deployment/abc and cloneset/abc, and five Rollout objects.
ClusterGet(gvk, namespace, name) ==
    IF gvk \in {DeploymentGVK, CloneSetGVK}
    THEN IF name = "abc" THEN WorkloadObj ELSE NotFound
    ELSE CASE name = "ra" -> RolloutObj("apps/v1", "Deployment", "abc")
           [] name = "rb" -> RolloutObj("apps.kruise.io/v1alpha1", "CloneSet", "abc")
           [] name = "rbad" -> RolloutObj("apps/v1/abc", "Deployment", "abc")
           [] name = "rold" -> OtherVersionObj
           [] name = "rnil" -> NilObj
           [] OTHER -> NotFound

\* The identity of an object: group, version, kind, namespace and name.
Identity(gvk, namespace, name) == [gvk |-> gvk, ns |-> namespace, name |-> name]
NoId == Identity([Group |-> "", Version |-> "", Kind |-> ""], "", "")

(***************************************************************************)
(* The invocation: the fields of UndoOptions that RunUndo reads.           *)
(***************************************************************************)
\* TYPE/NAME arguments (o.Resources), as given on the command line.
ArgUniverse ==
    {"deployment/abc", "rollout/ra", "rollout/rb", "rollout/rnil", "rollout/rold",
     "rollout/rbad"}

\* Objects read from the -f files (o.FilenameOptions): each names its kind,
\* namespace and name.
FileUniverse ==
    {[gvk |-> g, ns |-> n, name |-> m] :
        g \in {DeploymentGVK}, n \in Namespaces, m \in {"abc"}}
    \cup {[gvk |-> RolloutGVK, ns |-> n, name |-> "ra"] : n \in Namespaces}

DryRunStrategies == {"none", "client", "server"}
Revisions == {0, 3}

SeqsUpTo(S, n) == UNION {[1..k -> S] : k \in 0..n}

Options ==
    {[Resources |-> a, Filenames |-> f, Namespace |-> "default",
      EnforceNamespace |-> e, DryRunStrategy |-> d, ToRevision |-> v] :
        a \in SeqsUpTo(ArgUniverse, MaxItems), f \in SeqsUpTo(FileUniverse, MaxItems),
        e \in BOOLEAN, d \in DryRunStrategies, v \in Revisions}

\* UndoOptions.Validate
Validate(opts) == ~(Len(opts.Resources) = 0 /\ Len(opts.Filenames) = 0)

(***************************************************************************)
(* resource.Builder, as RunUndo configures it (lines 198-205, 307-314):    *)
(* NamespaceParam(o.Namespace).DefaultNamespace(), FilenameParam,          *)
(* ResourceTypeOrNameArgs, ContinueOnError, Latest, Flatten, Do.           *)
(***************************************************************************)
NoErr == ""

\* "Kind.version.group", the fully specified form of a resource type.
KindArg(gvk) == gvk.Kind \o "." \o gvk.Version \o "." \o gvk.Group

\* The lower-case resource type the command line uses for a kind.
ShortType(gvk) ==
    CASE gvk = DeploymentGVK -> "deployment"
      [] gvk = CloneSetGVK -> "cloneset"
      [] gvk = RolloutGVK -> "rollout"

ResourceTypes == {ShortType(g) : g \in KnownGVKs} \cup {KindArg(g) : g \in KnownGVKs}

\* ResourceTypeOrNameArgs: an argument TYPE/NAME is split at the slash and
\* TYPE is mapped to a group/version/kind; an argument that is no TYPE/NAME
\* of a known type is an error of the builder.
IsResourceArg(arg) == \E t \in ResourceTypes, n \in Names : arg = t \o "/" \o n
SplitResourceArgument(arg) ==
    CHOOSE p \in ResourceTypes \X Names : arg = p[1] \o "/" \o p[2]
MappingFor(type) == CHOOSE g \in KnownGVKs : type \in {ShortType(g), KindArg(g)}

\* One entry of the stream a Result visits: the resource.Info (Mapping,
\* Namespace, Name, Object as Latest() fetched it) or the error the builder
\* met for that item.
Entry(gvk, namespace, name, mismatch) ==
    LET obj == ClusterGet(gvk, namespace, name) IN
    [Mapping |-> gvk, Namespace |-> namespace, Name |-> name, Object |-> obj,
     err |-> IF mismatch THEN "NamespaceMismatch"
             ELSE IF obj = NotFound THEN "NotFound" ELSE NoErr]

\* An argument is looked up in the command's namespace.
ArgEntry(arg, namespace) ==
    LET p == SplitResourceArgument(arg) IN
    Entry(MappingFor(p[1]), namespace, p[2], FALSE)

\* A file object keeps its own namespace; FilenameParam(enforceNamespace)
\* makes the builder refuse an object of another namespace.
FileEntry(f, namespace, enforceNamespace) ==
    Entry(f.gvk, f.ns, f.name, enforceNamespace /\ f.ns # namespace)

\* Builder.Do: [err, items].  The builder visits by path when paths are
\* given and then refuses resource/name arguments.
Do(filenames, args, namespace, enforceNamespace) ==
    IF \E i \in DOMAIN args : ~IsResourceArg(args[i])
    THEN [err |-> "UnknownResource", items |-> <<>>]
    ELSE IF Len(filenames) > 0 /\ Len(args) > 0
    THEN [err |-> "ArgumentsWithPath", items |-> <<>>]
    ELSE IF Len(filenames) > 0
    THEN [err |-> NoErr,
          items |-> [i \in DOMAIN filenames |->
                        FileEntry(filenames[i], namespace, enforceNamespace)]]
    ELSE IF Len(args) > 0
    THEN [err |-> NoErr, items |-> [i \in DOMAIN args |-> ArgEntry(args[i], namespace)]]
    ELSE [err |-> "MissingResource", items |-> <<>>]

\* The visit without ContinueOnError(): it ends at the first error.
RemainingFailFast(items, cbErr) == IF cbErr # NoErr THEN <<>> ELSE Tail(items)

\* ContinueOnError(): the visit goes on to the next item whatever the
\* callback returned for this one.
Remaining(items, cbErr) == Tail(items)

(***************************************************************************)
(* State of one invocation of RunUndo.                                     *)
(***************************************************************************)
VARIABLES
    o,              \* the UndoOptions
    pc,             \* where RunUndo is: "start", "visit1", "visit2" or "done"
    stream,         \* the items the current Visit has still to deliver
    deDuplica,      \* the set of keys (line 243)
    refResources,   \* the references queued for the second builder (line 238)
    err,            \* what r.Visit returned: the errors of phase 1, <<>> is nil
    err2,           \* what r2.Visit returned, <<>> is nil
    ret,            \* what RunUndo returned, or that it panicked
    trace           \* every call made and every error met so far, in order

vars == <<o, pc, stream, deDuplica, refResources, err, err2, ret, trace>>

\* An entry of the trace.  ev is "Do" (a builder was run), "Visit" (an item
\* was delivered), "Record" (a key was put in deDuplica), "Queue" (a
\* reference was appended to refResources), "Undo" (undoFunc was entered
\* with an item), "HasSupport", "Rollback", "Output" (PrintObj wrote a
\* line) or "Error" (a callback returned an error).
Ev(ev, phase, id, op, ok) ==
    [ev |-> ev, phase |-> phase, id |-> id, op |-> op, ok |-> ok,
     rev |-> 0, dry |-> ""]

InfoId(info) == Identity(info.Mapping, info.Namespace, info.Name)

\* What the collaborators answer during one callback: whether RollbackerFn
\* finds a rollbacker, DryRunVerifier.HasSupport accepts the kind,
\* Rollback succeeds, and ToPrinter/PrintObj succeed.
Answers == [rollbacker : BOOLEAN, support : BOOLEAN, rollback : BOOLEAN, printer : BOOLEAN]

\* undoFunc with the result of HasSupport ignored: Rollback is called
\* whatever the verifier answered.
undoFuncUngated(info, phase, opts, env) ==
    LET id == InfoId(info)
        entered == <<Ev("Undo", phase, id, "", TRUE)>>
        checked ==
            IF opts.DryRunStrategy = "server"
            THEN entered \o <<Ev("HasSupport", phase, id, GVKString(info.Mapping), env.support)>>
            ELSE entered
        called ==
            checked \o <<[Ev("Rollback", phase, id, "", env.rollback) EXCEPT
                            !.rev = opts.ToRevision, !.dry = opts.DryRunStrategy]>>
    IN  IF info.err # NoErr
        THEN [err |-> info.err, evs |-> <<>>]
        ELSE IF ~env.rollbacker
        THEN [err |-> "NoRollbacker", evs |-> entered]
        ELSE IF ~env.rollback
        THEN [err |-> "RollbackFailed", evs |-> called]
        ELSE IF ~env.printer
        THEN [err |-> "PrinterError", evs |-> called]
        ELSE [err |-> NoErr, evs |-> called \o <<Ev("Output", phase, id, "rolled back", TRUE)>>]

\* undoFunc with the revision not passed on: Rollback is called with 0,
\* the previous revision, whatever --to-revision says.
undoFuncRevisionZero(info, phase, opts, env) ==
    LET id == InfoId(info)
        entered == <<Ev("Undo", phase, id, "", TRUE)>>
        checked ==
            IF opts.DryRunStrategy = "server"
            THEN entered \o <<Ev("HasSupport", phase, id, GVKString(info.Mapping), env.support)>>
            ELSE entered
        called ==
            checked \o <<[Ev("Rollback", phase, id, "", env.rollback) EXCEPT
                            !.rev = 0, !.dry = opts.DryRunStrategy]>>
    IN  IF info.err # NoErr
        THEN [err |-> info.err, evs |-> <<>>]
        ELSE IF ~env.rollbacker
        THEN [err |-> "NoRollbacker", evs |-> entered]
        ELSE IF opts.DryRunStrategy = "server" /\ ~env.support
        THEN [err |-> "DryRunUnsupported", evs |-> checked]
        ELSE IF ~env.rollback
        THEN [err |-> "RollbackFailed", evs |-> called]
        ELSE IF ~env.printer
        THEN [err |-> "PrinterError", evs |-> called]
        ELSE [err |-> NoErr, evs |-> called \o <<Ev("Output", phase, id, "rolled back", TRUE)>>]

\* undoFunc with the error of Rollback not checked (lines 226-228 left
\* out): the description is printed whether the rollback succeeded or not.
undoFuncPrintAlways(info, phase, opts, env) ==
    LET id == InfoId(info)
        entered == <<Ev("Undo", phase, id, "", TRUE)>>
        checked ==
            IF opts.DryRunStrategy = "server"
            THEN entered \o <<Ev("HasSupport", phase, id, GVKString(info.Mapping), env.support)>>
            ELSE entered
        called ==
            checked \o <<[Ev("Rollback", phase, id, "", env.rollback) EXCEPT
                            !.rev = opts.ToRevision, !.dry = opts.DryRunStrategy]>>
    IN  IF info.err # NoErr
        THEN [err |-> info.err, evs |-> <<>>]
        ELSE IF ~env.rollbacker
        THEN [err |-> "NoRollbacker", evs |-> entered]
        ELSE IF opts.DryRunStrategy = "server" /\ ~env.support
        THEN [err |-> "DryRunUnsupported", evs |-> checked]
        ELSE IF ~env.printer
        THEN [err |-> "PrinterError", evs |-> called]
        ELSE [err |-> NoErr, evs |-> called \o <<Ev("Output", phase, id, "rolled back", TRUE)>>]

\* undoFunc (lines 211-236) on one delivered item: the error it returns
\* and the calls it makes.
undoFunc(info, phase, opts, env) ==
    LET id == InfoId(info)
        entered == <<Ev("Undo", phase, id, "", TRUE)>>
        checked ==
            IF opts.DryRunStrategy = "server"
            THEN entered \o <<Ev("HasSupport", phase, id, GVKString(info.Mapping), env.support)>>
            ELSE entered
        called ==
            checked \o <<[Ev("Rollback", phase, id, "", env.rollback) EXCEPT
                            !.rev = opts.ToRevision, !.dry = opts.DryRunStrategy]>>
    IN  IF info.err # NoErr
        THEN [err |-> info.err, evs |-> <<>>]
        ELSE IF ~env.rollbacker
        THEN [err |-> "NoRollbacker", evs |-> entered]
        ELSE IF opts.DryRunStrategy = "server" /\ ~env.support
        THEN [err |-> "DryRunUnsupported", evs |-> checked]
        ELSE IF ~env.rollback
        THEN [err |-> "RollbackFailed", evs |-> called]
        ELSE IF ~env.printer
        THEN [err |-> "PrinterError", evs |-> called]
        ELSE [err |-> NoErr, evs |-> called \o <<Ev("Output", phase, id, "rolled back", TRUE)>>]

\* schema.ParseGroupVersion: "" and "/" are the empty group/version, a
\* string without a slash is a version, one slash separates group and
\* version, more slashes are an error.
Segments == {"apps", "apps.kruise.io", "rollouts.kruise.io", "v1", "v1alpha1", "abc"}
ParseGroupVersion(s) ==
    IF s \in {"", "/"} THEN [ok |-> TRUE, Group |-> "", Version |-> ""]
    ELSE IF s \in Segments THEN [ok |-> TRUE, Group |-> "", Version |-> s]
    ELSE IF \E g \in Segments, v \in Segments : s = g \o "/" \o v
    THEN LET p == CHOOSE p \in Segments \X Segments : s = p[1] \o "/" \o p[2]
         IN  [ok |-> TRUE, Group |-> p[1], Version |-> p[2]]
    ELSE [ok |-> FALSE, Group |-> "", Version |-> ""]

\* The key of a Rollout's workloadRef (line 267) and of a workload (line 286).
RefKey(gv, workloadRef) ==
    GVKString([Group |-> gv.Group, Version |-> gv.Version, Kind |-> workloadRef.Kind])
        \o workloadRef.Name
InfoKey(info) == GVKString(info.Mapping) \o info.Name

\* resourceIdentifier (line 273)
ResourceIdentifier(gv, workloadRef) ==
    workloadRef.Kind \o "." \o gv.Version \o "." \o gv.Group \o "/" \o workloadRef.Name

IsRollout(info) ==
    info.Mapping.Group = "rollouts.kruise.io" /\ info.Mapping.Kind = "Rollout"

\* The workload a Rollout's workloadRef names: the parsed group/version,
\* the kind and name of the reference, in the Rollout's namespace.
RefId(info, gv) ==
    Identity([Group |-> gv.Group, Version |-> gv.Version,
              Kind |-> info.Object.WorkloadRef.Kind],
             info.Namespace, info.Object.WorkloadRef.Name)

\* The callback with the key of a workload recorded only after a
\* successful undo (lines 292 and 295 in the other order): a workload whose
\* rollback failed can be tried again.
visitFnRecordOnSuccess(info, keys, refs, opts, env) ==
    LET id == InfoId(info)
        ref == info.Object.WorkloadRef
        gv == ParseGroupVersion(ref.APIVersion)
        fail(e) == [err |-> e, evs |-> <<>>, keys |-> keys, refs |-> refs]
        undo == undoFunc(info, 1, opts, env)
    IN  IF info.err # NoErr THEN fail(info.err)
        ELSE IF IsRollout(info)
        THEN IF info.Object = NilObj THEN fail("NilObject")
             ELSE IF info.Object.shape # "v1alpha1" THEN fail("BadCast")
             ELSE IF ~gv.ok THEN fail("BadGroupVersion")
             ELSE IF RefKey(gv, ref) \in keys THEN fail("Duplicate")
             ELSE IF ~env.printer THEN fail("PrinterError")
             ELSE [err |-> NoErr,
                   evs |-> <<Ev("Output", 1, id,
                                "references to " \o ResourceIdentifier(gv, ref), TRUE),
                             Ev("Record", 1, RefId(info, gv), RefKey(gv, ref), TRUE),
                             Ev("Queue", 1, RefId(info, gv), ResourceIdentifier(gv, ref), TRUE)>>,
                   keys |-> keys \cup {RefKey(gv, ref)},
                   refs |-> Append(refs, ResourceIdentifier(gv, ref))]
        ELSE IF InfoKey(info) \in keys THEN fail("Duplicate")
        ELSE IF undo.err # NoErr
        THEN [err |-> undo.err, evs |-> undo.evs, keys |-> keys, refs |-> refs]
        ELSE [err |-> NoErr,
              evs |-> undo.evs \o <<Ev("Record", 1, id, InfoKey(info), TRUE)>>,
              keys |-> keys \cup {InfoKey(info)},
              refs |-> refs]

\* The callback with the target of a pointer recorded before its line is
\* printed (line 282 moved above line 274): the key stays when the printer
\* fails.
visitFnRecordBeforePrint(info, keys, refs, opts, env) ==
    LET id == InfoId(info)
        ref == info.Object.WorkloadRef
        gv == ParseGroupVersion(ref.APIVersion)
        fail(e) == [err |-> e, evs |-> <<>>, keys |-> keys, refs |-> refs]
        undo == undoFunc(info, 1, opts, env)
    IN  IF info.err # NoErr THEN fail(info.err)
        ELSE IF IsRollout(info)
        THEN IF info.Object = NilObj THEN fail("NilObject")
             ELSE IF info.Object.shape # "v1alpha1" THEN fail("BadCast")
             ELSE IF ~gv.ok THEN fail("BadGroupVersion")
             ELSE IF RefKey(gv, ref) \in keys THEN fail("Duplicate")
             ELSE IF ~env.printer
             THEN [err |-> "PrinterError", evs |-> <<>>,
                   keys |-> keys \cup {RefKey(gv, ref)}, refs |-> refs]
             ELSE [err |-> NoErr,
                   evs |-> <<Ev("Output", 1, id,
                                "references to " \o ResourceIdentifier(gv, ref), TRUE),
                             Ev("Record", 1, RefId(info, gv), RefKey(gv, ref), TRUE),
                             Ev("Queue", 1, RefId(info, gv), ResourceIdentifier(gv, ref), TRUE)>>,
                   keys |-> keys \cup {RefKey(gv, ref)},
                   refs |-> Append(refs, ResourceIdentifier(gv, ref))]
        ELSE IF InfoKey(info) \in keys THEN fail("Duplicate")
        ELSE [err |-> undo.err,
              evs |-> <<Ev("Record", 1, id, InfoKey(info), TRUE)>> \o undo.evs,
              keys |-> keys \cup {InfoKey(info)},
              refs |-> refs]

\* The callback with a new reference put at the front of refResources
\* instead of appended (line 283): phase 2 gets the references in the
\* reverse of the order of discovery.
visitFnPrepend(info, keys, refs, opts, env) ==
    LET id == InfoId(info)
        ref == info.Object.WorkloadRef
        gv == ParseGroupVersion(ref.APIVersion)
        fail(e) == [err |-> e, evs |-> <<>>, keys |-> keys, refs |-> refs]
        undo == undoFunc(info, 1, opts, env)
    IN  IF info.err # NoErr THEN fail(info.err)
        ELSE IF IsRollout(info)
        THEN IF info.Object = NilObj THEN fail("NilObject")
             ELSE IF info.Object.shape # "v1alpha1" THEN fail("BadCast")
             ELSE IF ~gv.ok THEN fail("BadGroupVersion")
             ELSE IF RefKey(gv, ref) \in keys THEN fail("Duplicate")
             ELSE IF ~env.printer THEN fail("PrinterError")
             ELSE [err |-> NoErr,
                   evs |-> <<Ev("Output", 1, id,
                                "references to " \o ResourceIdentifier(gv, ref), TRUE),
                             Ev("Record", 1, RefId(info, gv), RefKey(gv, ref), TRUE),
                             Ev("Queue", 1, RefId(info, gv), ResourceIdentifier(gv, ref), TRUE)>>,
                   keys |-> keys \cup {RefKey(gv, ref)},
                   refs |-> <<ResourceIdentifier(gv, ref)>> \o refs]
        ELSE IF InfoKey(info) \in keys THEN fail("Duplicate")
        ELSE [err |-> undo.err,
              evs |-> <<Ev("Record", 1, id, InfoKey(info), TRUE)>> \o undo.evs,
              keys |-> keys \cup {InfoKey(info)},
              refs |-> refs]

\* The callback of r.Visit (lines 245-296) on one delivered item: the error
\* it returns, the calls it makes, and deDuplica and refResources after it.
visitFn(info, keys, refs, opts, env) ==
    LET id == InfoId(info)
        ref == info.Object.WorkloadRef
        gv == ParseGroupVersion(ref.APIVersion)
        fail(e) == [err |-> e, evs |-> <<>>, keys |-> keys, refs |-> refs]
        undo == undoFunc(info, 1, opts, env)
    IN  IF info.err # NoErr THEN fail(info.err)
        ELSE IF IsRollout(info)
        THEN IF info.Object = NilObj THEN fail("NilObject")
             ELSE IF info.Object.shape # "v1alpha1" THEN fail("BadCast")
             ELSE IF ~gv.ok THEN fail("BadGroupVersion")
             ELSE IF RefKey(gv, ref) \in keys THEN fail("Duplicate")
             ELSE IF ~env.printer THEN fail("PrinterError")
             ELSE [err |-> NoErr,
                   evs |-> <<Ev("Output", 1, id,
                                "references to " \o ResourceIdentifier(gv, ref), TRUE),
                             Ev("Record", 1, RefId(info, gv), RefKey(gv, ref), TRUE),
                             Ev("Queue", 1, RefId(info, gv), ResourceIdentifier(gv, ref), TRUE)>>,
                   keys |-> keys \cup {RefKey(gv, ref)},
                   refs |-> Append(refs, ResourceIdentifier(gv, ref))]
        ELSE IF InfoKey(info) \in keys THEN fail("Duplicate")
        ELSE [err |-> undo.err,
              evs |-> <<Ev("Record", 1, id, InfoKey(info), TRUE)>> \o undo.evs,
              keys |-> keys \cup {InfoKey(info)},
              refs |-> refs]

\* What one callback adds to the trace: the delivery, its calls, its error.
Visited(info, phase, res) ==
    <<Ev("Visit", phase, InfoId(info), "", info.err = NoErr)>> \o res.evs
        \o (IF res.err = NoErr THEN <<>>
            ELSE <<Ev("Error", phase, InfoId(info), res.err, FALSE)>>)

\* An aggregate of errors: ContinueOnError collects what the callbacks
\* return; the aggregate of no errors is nil.
Collect(errs, e) == IF e = NoErr THEN errs ELSE Append(errs, e)
IsNil(errs) == errs = <<>>

Running == [kind |-> "running", errs |-> <<>>]
ReturnNil == [kind |-> "nil", errs |-> <<>>]
ReturnError(errs) == [kind |-> "error", errs |-> errs]
Panic == [kind |-> "panic", errs |-> <<>>]

\* The check of line 302 left out: the second builder always runs.
NothingQueuedNever(refs) == FALSE

\* len(refResources) < 1 (line 302)
NothingQueued(refs) == Len(refs) < 1

\* fmt.Errorf(err.Error() + "\n" + err2.Error()) (line 320): calling Error
\* on a nil error panics.
Combine(e1, e2) == IF IsNil(e1) \/ IsNil(e2) THEN Panic ELSE ReturnError(e1 \o e2)

(***************************************************************************)
(* The steps of RunUndo.                                                   *)
(***************************************************************************)
Init ==
    /\ o \in {opts \in Options :
                Validate(opts) /\ Len(opts.Resources) + Len(opts.Filenames) <= MaxItems}
    /\ pc = "start"
    /\ stream = <<>>
    /\ deDuplica = {}
    /\ refResources = <<>>
    /\ err = <<>>
    /\ err2 = <<>>
    /\ ret = Running
    /\ trace = <<>>

\* Lines 198-208: the first builder; its error is returned at once.
Resolve1 ==
    /\ pc = "start"
    /\ LET r == Do(o.Filenames, o.Resources, o.Namespace, o.EnforceNamespace) IN
        /\ trace' = Append(trace, Ev("Do", 1, NoId, r.err, r.err = NoErr))
        /\ IF r.err # NoErr
           THEN /\ ret' = ReturnError(<<r.err>>)
                /\ pc' = "done"
                /\ stream' = <<>>
           ELSE /\ ret' = ret
                /\ pc' = "visit1"
                /\ stream' = r.items
    /\ UNCHANGED <<o, deDuplica, refResources, err, err2>>

\* Lines 245-296: r.Visit delivers the next item to the callback.
Visit1 ==
    /\ pc = "visit1"
    /\ stream # <<>>
    /\ \E env \in Answers :
        LET res == visitFn(Head(stream), deDuplica, refResources, o, env) IN
        /\ deDuplica' = res.keys
        /\ refResources' = res.refs
        /\ err' = Collect(err, res.err)
        /\ trace' = trace \o Visited(Head(stream), 1, res)
        /\ stream' = Remaining(stream, res.err)
    /\ UNCHANGED <<o, pc, err2, ret>>

\* Lines 297-304: r.Visit is over, its error is dropped, and with nothing
\* queued RunUndo returns nil.
SkipPhase2 ==
    /\ pc = "visit1"
    /\ stream = <<>>
    /\ NothingQueued(refResources)
    /\ ret' = ReturnNil
    /\ pc' = "done"
    /\ UNCHANGED <<o, stream, deDuplica, refResources, err, err2, trace>>

\* Resolve2 with the check of r2.Err() (lines 315-317) left out: the visit
\* starts whatever the builder returned.
Resolve2Unchecked ==
    /\ pc = "visit1"
    /\ stream = <<>>
    /\ ~NothingQueued(refResources)
    /\ LET r2 == Do(o.Filenames, refResources, o.Namespace, o.EnforceNamespace) IN
        /\ trace' = Append(trace, Ev("Do", 2, NoId, r2.err, r2.err = NoErr))
        /\ ret' = ret
        /\ pc' = "visit2"
        /\ stream' = r2.items
    /\ UNCHANGED <<o, deDuplica, refResources, err, err2>>

\* Lines 306-317: the second builder, over the same filename options and
\* the queued references; its error is returned at once.
Resolve2 ==
    /\ pc = "visit1"
    /\ stream = <<>>
    /\ ~NothingQueued(refResources)
    /\ LET r2 == Do(o.Filenames, refResources, o.Namespace, o.EnforceNamespace) IN
        /\ trace' = Append(trace, Ev("Do", 2, NoId, r2.err, r2.err = NoErr))
        /\ IF r2.err # NoErr
           THEN /\ ret' = ReturnError(<<r2.err>>)
                /\ pc' = "done"
                /\ stream' = <<>>
           ELSE /\ ret' = ret
                /\ pc' = "visit2"
                /\ stream' = r2.items
    /\ UNCHANGED <<o, deDuplica, refResources, err, err2>>

\* Visit2 with the key of each item taken out of deDuplica once phase 2 has
\* dealt with it.
Visit2Forgetting ==
    /\ pc = "visit2"
    /\ stream # <<>>
    /\ \E env \in Answers :
        LET res == undoFunc(Head(stream), 2, o, env) IN
        /\ err2' = Collect(err2, res.err)
        /\ trace' = trace \o Visited(Head(stream), 2, res)
        /\ stream' = Remaining(stream, res.err)
        /\ deDuplica' = deDuplica \ {InfoKey(Head(stream))}
    /\ UNCHANGED <<o, pc, refResources, err, ret>>

\* Visit2 with the callback of the first visit (line 318 given the closure
\* of line 245): the items of phase 2 are classified, recorded and queued.
Visit2Classifying ==
    /\ pc = "visit2"
    /\ stream # <<>>
    /\ \E env \in Answers :
        LET res == visitFn(Head(stream), {}, refResources, o, env) IN
        /\ deDuplica' = deDuplica \cup res.keys
        /\ refResources' = res.refs
        /\ err2' = Collect(err2, res.err)
        /\ trace' = trace \o Visited(Head(stream), 2, res)
        /\ stream' = Remaining(stream, res.err)
    /\ UNCHANGED <<o, pc, err, ret>>

\* Line 318: r2.Visit delivers the next item to undoFunc.
Visit2 ==
    /\ pc = "visit2"
    /\ stream # <<>>
    /\ \E env \in Answers :
        LET res == undoFunc(Head(stream), 2, o, env) IN
        /\ err2' = Collect(err2, res.err)
        /\ trace' = trace \o Visited(Head(stream), 2, res)
        /\ stream' = Remaining(stream, res.err)
    /\ UNCHANGED <<o, pc, deDuplica, refResources, err, ret>>

\* Line 320: r2.Visit is over and the two errors are joined.
Return ==
    /\ pc = "visit2"
    /\ stream = <<>>
    /\ ret' = Combine(err, err2)
    /\ pc' = "done"
    /\ UNCHANGED <<o, stream, deDuplica, refResources, err, err2, trace>>

Next == Resolve1 \/ Visit1 \/ SkipPhase2 \/ Resolve2 \/ Visit2 \/ Return

Spec == Init /\ [][Next]_vars

\* RunUndo is one sequential function: every call it makes returns (the
\* builders hand over finite lists, the collaborators answer), so the step
\* that is enabled is eventually taken.
FairSpec == Spec /\ WF_vars(Next)

TypeOK ==
    /\ pc \in {"start", "visit1", "visit2", "done"}
    /\ ret.kind \in {"running", "nil", "error", "panic"}
    /\ (pc = "done") = (ret # Running)

(***************************************************************************)
(* Vocabulary of the properties.                                           *)
(***************************************************************************)
\* The items the first builder delivers for this invocation.
Phase1Items == Do(o.Filenames, o.Resources, o.Namespace, o.EnforceNamespace).items

\* The items the second builder delivers for the queued references.
Phase2Items == Do(o.Filenames, refResources, o.Namespace, o.EnforceNamespace).items

Indices(ev, phase) == {i \in DOMAIN trace : trace[i].ev = ev /\ trace[i].phase = phase}
IndicesOf(ev, phase, id) == {i \in Indices(ev, phase) : trace[i].id = id}
Count(ev, phase, id) == Cardinality(IndicesOf(ev, phase, id))

\* A delivered Rollout whose workloadRef can be read.
IsPointer(info) ==
    /\ info.err = NoErr
    /\ IsRollout(info)
    /\ info.Object.shape = "v1alpha1"
    /\ ParseGroupVersion(info.Object.WorkloadRef.APIVersion).ok

\* The workload identity an item names: a pointer names its target, in the
\* pointer's namespace; a workload names itself; an item that was not
\* delivered or cannot be read names nothing.
Target(info) ==
    IF info.err # NoErr THEN NoId
    ELSE IF IsRollout(info)
    THEN IF IsPointer(info)
         THEN RefId(info, ParseGroupVersion(info.Object.WorkloadRef.APIVersion))
         ELSE NoId
    ELSE InfoId(info)

\* The same, for the item of an entry of the trace.
TargetOf(id) == Target(Entry(id.gvk, id.ns, id.name, FALSE))

\* How many items of phase 1 name the identity x.
TimesNamed(x) == Cardinality({i \in DOMAIN Phase1Items : Target(Phase1Items[i]) = x})

\* The "Duplicate" errors met for items naming x.
Duplicates(x) ==
    {i \in Indices("Error", 1) : trace[i].op = "Duplicate" /\ TargetOf(trace[i].id) = x}

\* The pointers phase 1 accepted: it wrote their "references to" line.
Accepted(info) ==
    /\ IsPointer(info)
    /\ \E i \in IndicesOf("Output", 1, InfoId(info)) : TRUE

NoPrinterError == \A i \in DOMAIN trace : trace[i].op # "PrinterError"
Resolved1 == \E i \in Indices("Do", 1) : trace[i].ok
Resolved2 == \E i \in Indices("Do", 2) : trace[i].ok

(***************************************************************************)
(* Properties.                                                             *)
(***************************************************************************)
\* C1: when RunUndo has returned, and no printer call failed, every
\* workload identity that the resolved items name more than once (directly,
\* through a Rollout, or both) has had exactly one rollback attempt
\* (undoFunc entered for it) over both phases, and one duplicate error less
\* than the number of times it is named.
C1_DedupExactlyOnce ==
    (pc = "done" /\ NoPrinterError) =>
        \A k \in DOMAIN Phase1Items :
            LET x == Target(Phase1Items[k]) IN
            (x # NoId /\ TimesNamed(x) > 1) =>
                /\ Count("Undo", 1, x) + Count("Undo", 2, x) = 1
                /\ Cardinality(Duplicates(x)) = TimesNamed(x) - 1

\* C2: when RunUndo has returned after a successful first resolution with
\* references queued, the identities the second visit delivered are exactly
\* the identities queued in phase 1, and no workload that phase 1 attempted
\* or rejected is delivered again in phase 2.
C2_Phase2VisitsTheQueued ==
    (pc = "done" /\ Resolved1 /\ ~NothingQueued(refResources)) =>
        /\ {trace[i].id : i \in Indices("Visit", 2)} = {trace[i].id : i \in Indices("Queue", 1)}
        /\ \A i \in Indices("Visit", 2) :
               /\ Count("Undo", 1, trace[i].id) = 0
               /\ Duplicates(trace[i].id) = {} \/ Count("Queue", 1, trace[i].id) > 0

\* C3: when RunUndo has returned and a callback returned an error for some
\* item, RunUndo returned an error.
C3_ItemErrorMeansFailure ==
    (pc = "done" /\ \E i \in DOMAIN trace : trace[i].ev = "Error") => ret.kind = "error"

\* C4: when the second visit has run to its end, RunUndo returns without
\* panic: nil when neither phase met an error, and otherwise an error made
\* of the errors of the phases that failed.
C4_NullSafeCombine ==
    (pc = "done" /\ Resolved2) =>
        /\ ret.kind # "panic"
        /\ (IsNil(err) /\ IsNil(err2)) => ret = ReturnNil
        /\ ~(IsNil(err) /\ IsNil(err2)) => ret = ReturnError(err \o err2)

\* C5: when RunUndo has returned, for every pointer P that phase 1 accepted
\* and whose target W no other item names: phase 1 made no rollback attempt
\* and no Rollback call for W and queued exactly one reference to W, phase 2
\* made exactly one rollback attempt for W, and P itself was never handed
\* to undoFunc.
C5_TwoPhaseResolution ==
    (pc = "done") =>
        \A k \in DOMAIN Phase1Items :
            LET P == Phase1Items[k]
                W == Target(P)
            IN  (Accepted(P) /\ TimesNamed(W) = 1) =>
                    /\ Count("Undo", 1, W) = 0
                    /\ Count("Rollback", 1, W) = 0
                    /\ Count("Queue", 1, W) = 1
                    /\ Count("Undo", 2, W) = 1
                    /\ Count("Undo", 1, InfoId(P)) + Count("Undo", 2, InfoId(P)) = 0

\* C6: an item is rejected as a duplicate only if an earlier item recorded
\* the same identity (group, version, kind, namespace and name), and no
\* identity is recorded twice.
C6_DuplicateIffSameIdentity ==
    /\ \A i \in Indices("Error", 1) :
           trace[i].op = "Duplicate" =>
               \E j \in Indices("Record", 1) : j < i /\ trace[j].id = TargetOf(trace[i].id)
    /\ \A i, j \in Indices("Record", 1) : trace[i].id = trace[j].id => i = j

\* C7: the dry-run verifier is consulted only when the dry-run mode is
\* server-side; a target it refuses gets no Rollback call in that phase and
\* an error; and in server-side mode every Rollback call comes right after
\* the verifier accepted the same target.
C7_DryRunGating ==
    \A i \in DOMAIN trace :
        /\ trace[i].ev = "HasSupport" => o.DryRunStrategy = "server"
        /\ (trace[i].ev = "HasSupport" /\ ~trace[i].ok) =>
               /\ Count("Rollback", trace[i].phase, trace[i].id) = 0
               /\ i + 1 \in IndicesOf("Error", trace[i].phase, trace[i].id)
               /\ trace[i + 1].op = "DryRunUnsupported"
        /\ (trace[i].ev = "Rollback" /\ o.DryRunStrategy = "server") =>
               /\ i - 1 \in IndicesOf("HasSupport", trace[i].phase, trace[i].id)
               /\ trace[i - 1].ok

\* A run in which the verifier refused a target in phase 1 and another in
\* phase 2.
C7_Witness ==
    /\ pc = "done"
    /\ \E i \in Indices("HasSupport", 1) : ~trace[i].ok
    /\ \E i \in Indices("HasSupport", 2) : ~trace[i].ok

\* The n-th delivery of a phase is the n-th item of that phase's builder.
InOrder(phase, items) ==
    \A i \in Indices("Visit", phase) :
        LET n == Cardinality({j \in Indices("Visit", phase) : j <= i}) IN
        n <= Len(items) /\ trace[i].id = InfoId(items[n])

\* C8: whatever errors the callbacks return, each phase delivers every item
\* of its builder, in order: during a visit the items delivered and the
\* items still to deliver make up the builder's items, at the end all were
\* delivered; and the second builder is run whenever a reference was
\* queued, whatever phase 1 failed on.
C8_ContinueOnError ==
    /\ InOrder(1, Phase1Items)
    /\ pc = "visit1" => Cardinality(Indices("Visit", 1)) + Len(stream) = Len(Phase1Items)
    /\ (pc \in {"visit2", "done"} /\ Resolved1) =>
           Cardinality(Indices("Visit", 1)) = Len(Phase1Items)
    /\ Resolved2 => InOrder(2, Phase2Items)
    /\ pc = "visit2" => Cardinality(Indices("Visit", 2)) + Len(stream) = Len(Phase2Items)
    /\ (pc = "done" /\ Resolved2) => Cardinality(Indices("Visit", 2)) = Len(Phase2Items)
    /\ (pc = "done" /\ Resolved1 /\ refResources # <<>>) => Indices("Do", 2) # {}

\* A run in which an item of phase 1 failed, a later item of phase 1 was
\* still delivered, and phase 2 ran and delivered its item.
C8_Witness ==
    /\ pc = "done"
    /\ \E i \in Indices("Error", 1), j \in Indices("Visit", 1) : i < j
    /\ Indices("Visit", 2) # {}

\* C9: when RunUndo has returned, for every pointer P that phase 1 accepted
\* in a namespace n, phase 2 made a rollback attempt for the workload P
\* names in n, and no rollback attempt of phase 2 is for a workload of that
\* kind and name in another namespace.  Stated for the pointers whose
\* namespace is not the command's, the ones for which the namespace of the
\* reference decides where phase 2 looks.
C9_PointerNamespaceKept ==
    (pc = "done") =>
        \A k \in DOMAIN Phase1Items :
            LET P == Phase1Items[k]
                W == Target(P)
            IN  (Accepted(P) /\ P.Namespace # o.Namespace) =>
                    /\ Count("Undo", 2, W) >= 1
                    /\ \A i \in Indices("Undo", 2) :
                           (trace[i].id.gvk = W.gvk /\ trace[i].id.name = W.name) =>
                               trace[i].id.ns = P.Namespace

\* C10: when RunUndo has returned after a successful first resolution that
\* queued no reference, the builder was run once, nothing happened in a
\* second phase, and RunUndo returned without panic.
C10_Phase2Skip ==
    (pc = "done" /\ Resolved1 /\ refResources = <<>>) =>
        /\ Cardinality(Indices("Do", 1)) = 1
        /\ \A i \in DOMAIN trace : trace[i].phase = 1
        /\ ret.kind \in {"nil", "error"}

\* A run that queued nothing, rolled a workload back in phase 1, met an
\* error for another item and returned.
C10_Witness ==
    /\ pc = "done"
    /\ refResources = <<>>
    /\ Indices("Rollback", 1) # {}
    /\ Indices("Error", 1) # {}

\* C11: a builder that returns an error ends RunUndo with that error.  After
\* a failed first builder nothing else has happened: no item delivered, no
\* key recorded, no Rollback call.  After a failed second builder nothing
\* has happened in phase 2: the failed call is the last entry of the trace.
C11_ResolutionErrorIsFatal ==
    /\ \A i \in Indices("Do", 1) :
           ~trace[i].ok =>
               /\ pc = "done"
               /\ ret = ReturnError(<<trace[i].op>>)
               /\ Len(trace) = 1
               /\ deDuplica = {}
               /\ refResources = <<>>
    /\ \A i \in Indices("Do", 2) :
           ~trace[i].ok =>
               /\ pc = "done"
               /\ ret = ReturnError(<<trace[i].op>>)
               /\ i = Len(trace)
               /\ \A j \in DOMAIN trace : j # i => trace[j].phase = 1

\* A run whose second builder failed after phase 1 had queued a reference
\* and met an error for another item.
C11_Witness ==
    /\ pc = "done"
    /\ \E i \in Indices("Do", 2) : ~trace[i].ok
    /\ Indices("Queue", 1) # {}
    /\ Indices("Error", 1) # {}

\* A run whose first builder failed.
C11_WitnessFirst ==
    /\ pc = "done"
    /\ \E i \in Indices("Do", 1) : ~trace[i].ok

\* C12: every Rollback call, in phase 1 and in phase 2, gets the revision
\* and the dry-run mode of the invocation (so revision 0 when --to-revision
\* is unset), and no step of RunUndo changes the options.
C12_RevisionPassThrough ==
    /\ [](\A i \in DOMAIN trace :
              trace[i].ev = "Rollback" =>
                  /\ trace[i].rev = o.ToRevision
                  /\ trace[i].dry = o.DryRunStrategy)
    /\ [][o' = o]_vars

\* A run with --to-revision=3 that called Rollback in both phases.
C12_Witness ==
    /\ pc = "done"
    /\ o.ToRevision = 3
    /\ Indices("Rollback", 1) # {}
    /\ Indices("Rollback", 2) # {}

\* A run with --to-revision unset that called Rollback with revision 0.
C12_WitnessDefault ==
    /\ o.ToRevision = 0
    /\ \E i \in Indices("Rollback", 2) : trace[i].rev = 0

\* C13: every Rollback call comes after the recording of its identity, and
\* the recorded key is in deDuplica; and once a rollback was attempted for
\* an identity in phase 1, whatever its outcome, every later item of phase
\* 1 that names the identity is rejected as a duplicate at once.
C13_RecordedBeforeDispatch ==
    /\ \A i \in DOMAIN trace :
           trace[i].ev = "Rollback" =>
               \E j \in Indices("Record", 1) :
                   j < i /\ trace[j].id = trace[i].id /\ trace[j].op \in deDuplica
    /\ \A i \in Indices("Undo", 1), j \in Indices("Visit", 1) :
           (i < j /\ trace[j].ok /\ TargetOf(trace[j].id) = trace[i].id) =>
               /\ j + 1 \in IndicesOf("Error", 1, trace[j].id)
               /\ trace[j + 1].op = "Duplicate"

\* A run in which the Rollback of a workload failed and a later item naming
\* the same workload was rejected as a duplicate.
C13_Witness ==
    \E i \in Indices("Rollback", 1), j \in Indices("Error", 1) :
        /\ ~trace[i].ok
        /\ i < j
        /\ trace[j].op = "Duplicate"
        /\ TargetOf(trace[j].id) = trace[i].id

\* C14: a step of phase 1 in which a delivered Rollout ends in an error (nil
\* object, failed cast, unparsable apiVersion, target already recorded,
\* printer failure) leaves deDuplica and refResources as they were and
\* calls nothing: the step adds the visit and the error and no other event.
C14_FailedPointerChangesNothing ==
    [][(/\ pc = "visit1"
        /\ stream # <<>>
        /\ Head(stream).err = NoErr
        /\ IsRollout(Head(stream))
        /\ trace'[Len(trace')].ev = "Error")
           => /\ deDuplica' = deDuplica
              /\ refResources' = refResources
              /\ Len(trace') = Len(trace) + 2
              /\ trace'[Len(trace) + 1].ev = "Visit"
              /\ trace'[Len(trace) + 2].op \in
                     {"NilObject", "BadCast", "BadGroupVersion", "Duplicate", "PrinterError"}]_vars

\* The printer failed for a pointer while a key was already recorded; the
\* four predicates after it are the other failures of a pointer.
C14_Witness ==
    /\ deDuplica # {}
    /\ \E i \in Indices("Error", 1) :
           /\ trace[i].id.gvk = RolloutGVK
           /\ trace[i].op = "PrinterError"
           /\ \E j \in Indices("Record", 1) : j < i

C14_WitnessNil == \E i \in Indices("Error", 1) : trace[i].op = "NilObject"
C14_WitnessCast == \E i \in Indices("Error", 1) : trace[i].op = "BadCast"
C14_WitnessParse == \E i \in Indices("Error", 1) : trace[i].op = "BadGroupVersion"
C14_WitnessDuplicate ==
    \E i \in Indices("Error", 1) :
        trace[i].id.gvk = RolloutGVK /\ trace[i].op = "Duplicate"

\* C15: refResources holds the queued references in the order in which
\* phase 1 queued them, which is the order of the items of the first
\* builder, and holds none twice; every event of phase 1 precedes every
\* event of phase 2; and every Rollback of phase 2 for a workload W comes
\* after the line "references to W" that phase 1 printed when it queued W.
C15_Ordering ==
    LET qs == Indices("Queue", 1)
        nth(i) == Cardinality({j \in qs : j <= i})
    IN  /\ InOrder(1, Phase1Items)
        /\ Len(refResources) = Cardinality(qs)
        /\ \A i \in qs :
               /\ refResources[nth(i)] = trace[i].op
               /\ i > 3
               /\ trace[i - 3].ev = "Visit"
               /\ TargetOf(trace[i - 3].id) = trace[i].id
        /\ \A a, b \in DOMAIN refResources :
               a # b => refResources[a] # refResources[b]
        /\ \A i, j \in DOMAIN trace :
               (trace[i].phase = 1 /\ trace[j].phase = 2) => i < j
        /\ \A j \in Indices("Rollback", 2) :
               \E i \in Indices("Output", 1) :
                   /\ i < j
                   /\ i + 2 \in qs
                   /\ trace[i + 2].id = trace[j].id
                   /\ trace[i].op = "references to " \o trace[i + 2].op

\* Two references were queued in phase 1
\* and phase 2 called Rollback for both.
C15_Witness ==
    /\ pc = "done"
    /\ Len(refResources) = 2
    /\ Cardinality({trace[j].id : j \in Indices("Rollback", 2)}) = 2

\* The lines printed through the printer: the descriptions of rollbacks and
\* the lines of accepted pointers.
RolledBackLines == {i \in DOMAIN trace : trace[i].ev = "Output" /\ trace[i].op = "rolled back"}
ReferenceLines == {i \in DOMAIN trace : trace[i].ev = "Output" /\ trace[i].op # "rolled back"}
SuccessfulRollbacks == {i \in DOMAIN trace : trace[i].ev = "Rollback" /\ trace[i].ok}

\* What holds of the lines of pointers and of duplicates, with or without
\* printer failures: a queued reference has exactly one line, printed in
\* the step that queued it, a line of a pointer is printed for nothing
\* else, and the step that rejects a duplicate prints nothing.
PointerLines ==
    /\ \A i \in Indices("Queue", 1) :
           /\ i - 2 \in ReferenceLines
           /\ trace[i - 2].op = "references to " \o trace[i].op
    /\ \A k \in ReferenceLines :
           trace[k].phase = 1 /\ k + 2 \in Indices("Queue", 1)
    /\ \A i \in DOMAIN trace :
           (trace[i].ev = "Error" /\ trace[i].op = "Duplicate") =>
               i > 1 /\ trace[i - 1].ev = "Visit"

\* C16: as many "rolled back" lines are printed as Rollback calls
\* succeeded, each accepted pointer has exactly one "references to" line,
\* and an item rejected as a duplicate prints no line.
C16_OneLinePerOutcome ==
    /\ Cardinality(RolledBackLines) = Cardinality(SuccessfulRollbacks)
    /\ PointerLines

\* C16, amended: the printer is asked once after each successful Rollback,
\* at once and for the same object, and the line "rolled back" is printed
\* unless that call fails, in which case the item ends in the printer's
\* error; a "rolled back" line is printed for nothing but a Rollback that
\* succeeded just before it.  So the lines and the printer failures after a
\* Rollback together number the successful Rollback calls.  The lines of
\* pointers and of duplicates are as the claim says.
C16_OnePrinterCallPerOutcome ==
    /\ \A i \in SuccessfulRollbacks :
           /\ i + 1 \in DOMAIN trace
           /\ trace[i + 1].id = trace[i].id
           /\ trace[i + 1].phase = trace[i].phase
           /\ \/ i + 1 \in RolledBackLines
              \/ trace[i + 1].ev = "Error" /\ trace[i + 1].op = "PrinterError"
    /\ \A k \in RolledBackLines :
           k - 1 \in SuccessfulRollbacks
    /\ Cardinality(RolledBackLines)
           + Cardinality({i \in SuccessfulRollbacks : trace[i + 1].ev = "Error"})
         = Cardinality(SuccessfulRollbacks)
    /\ PointerLines

\* Two pointers were accepted; in phase 2 one Rollback succeeded and its
\* line was printed, the other succeeded and the printer failed.
C16_Witness ==
    /\ pc = "done"
    /\ Cardinality(Indices("Queue", 1)) = 2
    /\ \E i \in SuccessfulRollbacks : i + 1 \in RolledBackLines
    /\ \E i \in SuccessfulRollbacks : trace[i + 1].op = "PrinterError"

\* C17: deDuplica is empty when RunUndo starts; at every point it holds the
\* key of every queued reference and of every workload for which phase 1
\* entered undoFunc, and nothing but the keys phase 1 recorded; no step
\* removes a key, and only the steps of the first visit add one, so phase 2
\* leaves the set as phase 1 left it.
C17_DedupSetInvariant ==
    /\ deDuplica = {}
    /\ [](\A i \in Indices("Queue", 1) \cup Indices("Undo", 1) :
              GVKString(trace[i].id.gvk) \o trace[i].id.name \in deDuplica)
    /\ [](deDuplica = {trace[i].op : i \in Indices("Record", 1)})
    /\ [][/\ deDuplica \subseteq deDuplica'
          /\ pc # "visit1" => deDuplica' = deDuplica]_vars

\* Phase 2 has run to its end with a set that holds the key of a queued
\* reference and the key of a workload whose rollback phase 1 attempted.
C17_Witness ==
    /\ pc = "done"
    /\ Indices("Visit", 2) # {}
    /\ Indices("Queue", 1) # {}
    /\ Indices("Undo", 1) # {}
    /\ Cardinality(deDuplica) = 2

\* C18: RunUndo returns, whatever the items and the answers of the
\* collaborators; up to then each builder was run at most once and there is
\* no third; each visit delivers no more items than its builder handed
\* over; an item delivered in phase 2 goes straight to undoFunc, and phase 2
\* records and queues nothing, so refResources is as phase 1 left it.
C18_BoundedPasses ==
    /\ [](/\ Cardinality(Indices("Do", 1)) <= 1
          /\ Cardinality(Indices("Do", 2)) <= 1
          /\ \A i \in DOMAIN trace : trace[i].phase \in {1, 2})
    /\ [](/\ Cardinality(Indices("Visit", 1)) <= Len(Phase1Items)
          /\ Cardinality(Indices("Visit", 2)) <= Len(refResources)
          /\ InOrder(1, Phase1Items)
          /\ Resolved2 => InOrder(2, Phase2Items))
    /\ [](\A i \in DOMAIN trace :
              trace[i].phase = 2 =>
                  /\ trace[i].ev \notin {"Record", "Queue"}
                  /\ (trace[i].ev = "Visit" /\ trace[i].ok) =>
                         /\ i + 1 \in IndicesOf("Undo", 2, trace[i].id)
                         /\ Count("Visit", 2, trace[i].id) = 1)
    /\ [][(pc = "visit2" \/ pc = "done") => refResources' = refResources]_vars
    /\ <>(pc = "done")

\* RunUndo has returned after two passes of two items each.
C18_Witness ==
    /\ pc = "done"
    /\ Cardinality(Indices("Do", 1) \cup Indices("Do", 2)) = 2
    /\ Cardinality(Indices("Visit", 1)) = 2
    /\ Cardinality(Indices("Undo", 2)) = 2

====
